---- MODULE Spec2Model ----
(***************************************************************************)
(* A model of the credential-and-delivery core of github-app-template:     *)
(*   src/src/auth.js      generateJWT, authenticateApp,                    *)
(*                        getInstallationToken, authenticateInstallation,  *)
(*                        withRateLimit                                    *)
(*   src/src/webhooks.js  verifySignature, the event handlers and          *)
(*                        webhookHandler                                   *)
(*                                                                         *)
(* The specifications share the variables:                                 *)
(*   Spec      one webhook delivery at a time through webhookHandler;      *)
(*   SpecRL    a caller of withRateLimit(operation, retries) with an       *)
(*             arbitrary retry budget and an arbitrary operation;          *)
(*   SpecJWT   a caller of generateJWT with arbitrary arguments;           *)
(*   SpecConc  two webhook deliveries interleaved at their awaits;         *)
(*   SpecLive  SpecConc where every awaited promise settles.               *)
(***************************************************************************)
EXTENDS Integers, Sequences, FiniteSets, TLC

VARIABLES
    env,    \* process.env: WEBHOOK_SECRET, GITHUB_APP_ID, GITHUB_PRIVATE_KEY
    dl,     \* one record per in-flight webhookHandler(req, res) call
    rl,     \* the withRateLimit call of the stand-alone caller
    timer,  \* the setTimeout that call last started
    jwt     \* the generateJWT calls of the stand-alone caller, in order

vars == <<env, dl, rl, timer, jwt>>

(***************************************************************************)
(* Bounds of the model.                                                    *)
(***************************************************************************)
\* Largest retry budget the stand-alone caller passes to withRateLimit.
MaxRetries == 3

\* auth.js:113, the default value of the parameter `retries`.
DefaultRetries == 3

\* webhooks.js:18, the length of 'sha256=' followed by 64 hex digits.
DigestLen == 71

(***************************************************************************)
(* Errors.  A rejected operation carries an error value; the code reads    *)
(* error.status, error.headers['x-ratelimit-remaining'] and                *)
(* error.headers['x-ratelimit-reset'].  status 0 stands for an error       *)
(* without a status property, hasHeaders = FALSE for an error without a    *)
(* headers property, remaining "absent" and reset -1 for a missing header. *)
(***************************************************************************)
MkError(id, status, hasHeaders, remaining, reset) ==
    [id |-> id, status |-> status, hasHeaders |-> hasHeaders,
     remaining |-> remaining, reset |-> reset]

NoError == MkError("none", 0, FALSE, "absent", -1)

\* The TypeError raised by reading a property of undefined or null.
TypeError == MkError("TypeError", 0, FALSE, "absent", -1)

\* The rate-limit error of tests/auth.test.js, twice, to tell attempts apart.
RateLimitA == MkError("rateLimitA", 403, TRUE, "0", 1)
RateLimitB == MkError("rateLimitB", 403, TRUE, "0", 2)

\* Rate-limit errors whose reset lies just ahead and far ahead of the clock.
RateLimitSoon == MkError("rateLimitSoon", 403, TRUE, "0", 101)
RateLimitFar == MkError("rateLimitFar", 403, TRUE, "0", 2147583)

Errors ==
    { RateLimitA, RateLimitB, RateLimitSoon, RateLimitFar,
      MkError("rem0NoReset", 403, TRUE, "0", -1),
      MkError("forbidden", 403, TRUE, "absent", -1),
      MkError("forbiddenRem5", 403, TRUE, "5", 2),
      MkError("forbiddenBare", 403, FALSE, "absent", -1),
      MkError("server", 500, TRUE, "absent", -1),
      MkError("network", 0, FALSE, "absent", -1) }

\* What one invocation of the operation settles to.
Ok(v) == [ok |-> TRUE, val |-> v, err |-> NoError]
Fail(e) == [ok |-> FALSE, val |-> "none", err |-> e]

Outcomes == { Ok(v) : v \in {"resultA", "resultB"} } \cup { Fail(e) : e \in Errors }

(***************************************************************************)
(* withRateLimit (auth.js:113-129) as a call frame.                        *)
(*   state    "idle" | "calling" (awaiting operation()) | "waiting" (in    *)
(*            the setTimeout promise) | "returned" | "thrown"              *)
(*   budget   the retries argument of the outermost call                   *)
(*   retries  the retries argument of the current (recursive) call         *)
(*   calls    how many times operation() has been invoked                  *)
(*   waits    how many setTimeout waits have been started                  *)
(*   log      what each invocation settled to, in order                    *)
(***************************************************************************)
IdleFrame ==
    [state |-> "idle", budget |-> 0, retries |-> 0, calls |-> 0, waits |-> 0,
     log |-> <<>>, result |-> "none", error |-> NoError]

\* auth.js:113-115: the call enters the try block and invokes operation().
FrameStart(retries) ==
    [IdleFrame EXCEPT !.state = "calling", !.budget = retries,
                      !.retries = retries, !.calls = 1]

\* auth.js:117: the condition of the catch block.  Reading
\* error.headers[...] of an error without headers raises a TypeError; &&
\* short-circuits, so the read happens only when status is 403.
CatchDecisionNoRetry(error, retries) ==
    IF error.status # 403 THEN "rethrow"
    ELSE IF ~error.hasHeaders THEN "typeerror"
    ELSE "rethrow"

CatchDecisionOffByOne(error, retries) ==
    IF error.status # 403 THEN "rethrow"
    ELSE IF ~error.hasHeaders THEN "typeerror"
    ELSE IF error.remaining = "0" /\ retries >= 0 THEN "retry"
    ELSE "rethrow"

CatchDecision(error, retries) ==
    IF error.status # 403 THEN "rethrow"
    ELSE IF ~error.hasHeaders THEN "typeerror"
    ELSE IF error.remaining = "0" /\ retries > 0 THEN "retry"
    ELSE "rethrow"

\* auth.js:115-128: operation() settles to outcome o.
FrameSettle(f, o) ==
    LET logged == [f EXCEPT !.log = Append(f.log, o)] IN
    IF o.ok THEN [logged EXCEPT !.state = "returned", !.result = o.val]
    ELSE LET dec == CatchDecision(o.err, f.retries) IN
         IF dec = "retry"
         THEN [logged EXCEPT !.state = "waiting", !.waits = f.waits + 1]
         ELSE IF dec = "typeerror"
         THEN [logged EXCEPT !.state = "thrown", !.error = TypeError]
         ELSE [logged EXCEPT !.state = "thrown", !.error = o.err]

\* auth.js:123-124 then 115: the timer fires, withRateLimit(operation,
\* retries - 1) is entered and invokes operation() again.
FrameWake(f) ==
    [f EXCEPT !.state = "calling", !.retries = f.retries - 1,
              !.calls = f.calls + 1]

(***************************************************************************)
(* The backoff wait (auth.js:118-123).  The clock and the reset header are *)
(* in whole seconds; waitTime is kept in seconds, the delay of the timer   *)
(* in milliseconds.  setTimeout runs the callback after 1 ms when the      *)
(* delay is NaN, less than 1 or larger than 2^31 - 1 milliseconds.         *)
(***************************************************************************)
\* Date.now() / 1000 when an invocation of the stand-alone call fails.
ClockTimes == {100, 102}

\* The largest delay, in milliseconds, setTimeout accepts (auth.js:123).
TimeoutMax == 2147483647

waitTimeNoBuffer(error, now) ==
    IF error.reset = -1 THEN [nan |-> TRUE, s |-> 0]
    ELSE [nan |-> FALSE, s |-> error.reset - now]

\* auth.js:118-119: parseInt(reset) * 1000 - Date.now() + 1000, in seconds;
\* NaN when the error carries no reset header.
waitTime(error, now) ==
    IF error.reset = -1 THEN [nan |-> TRUE, s |-> 0]
    ELSE [nan |-> FALSE, s |-> error.reset - now + 1]

\* auth.js:123: the delay setTimeout(resolve, waitTime) really uses.
setTimeoutDelay(w) ==
    IF w.nan \/ w.s < 1 \/ w.s > TimeoutMax \div 1000 THEN 1
    ELSE w.s * 1000

NoTimer ==
    [armed |-> FALSE, now |-> 0, reset |-> -1, wait |-> [nan |-> TRUE, s |-> 0],
     delay |-> 0]

\* auth.js:118-123: the timer started for the failure `error` at time now.
Backoff(error, now) ==
    [armed |-> TRUE, now |-> now, reset |-> error.reset,
     wait |-> waitTime(error, now), delay |-> setTimeoutDelay(waitTime(error, now))]

(***************************************************************************)
(* process.env.  "" stands for an unset (or empty) variable: the code      *)
(* tests all three with `!value`.  GITHUB_APP_ID is a string of            *)
(* characters, the private key is a well-formed PEM key or garbage.        *)
(***************************************************************************)
AppIds == { <<>>, <<"4", "2">>, <<"a", "b">> }

Envs ==
    { e \in [secret : {"", "s1"}, appId : AppIds, privateKey : {"", "pem", "garbage"}] :
        \/ e.appId = <<"4", "2">> /\ e.privateKey = "pem"
        \/ e.secret = "s1" /\ (e.appId = <<"4", "2">> \/ e.privateKey = "pem") }

\* Date.now() / 1000 at the moment an assertion is minted.
Times == {1000, 2000}

(***************************************************************************)
(* generateJWT (auth.js:10-28).                                            *)
(***************************************************************************)
Digits == {"0", "1", "2", "3", "4", "5", "6", "7", "8", "9"}

DigitValue(c) ==
    CASE c = "0" -> 0 [] c = "1" -> 1 [] c = "2" -> 2 [] c = "3" -> 3
      [] c = "4" -> 4 [] c = "5" -> 5 [] c = "6" -> 6 [] c = "7" -> 7
      [] c = "8" -> 8 [] OTHER -> 9

\* parseInt(s, 10): the value of the longest prefix of digits; NaN (here
\* [nan |-> TRUE]) when the string does not start with a digit.
RECURSIVE ParsePrefix(_, _)
ParsePrefix(s, acc) ==
    IF s = <<>> \/ Head(s) \notin Digits THEN acc
    ELSE ParsePrefix(Tail(s), 10 * acc + DigitValue(Head(s)))

parseInt(s) ==
    IF s = <<>> \/ Head(s) \notin Digits
    THEN [nan |-> TRUE, n |-> 0]
    ELSE [nan |-> FALSE, n |-> ParsePrefix(s, 0)]

NoPayload == [iat |-> 0, exp |-> 0, iss |-> [nan |-> TRUE, n |-> 0]]

generateJWTSignFirst(appId, privateKey, now) ==
    LET payload == [iat |-> now - 60, exp |-> now + (10 * 60),
                    iss |-> parseInt(appId)] IN
    IF privateKey = "garbage"
    THEN [ok |-> FALSE, error |-> "Failed to generate JWT", payload |-> payload,
          signCalled |-> TRUE]
    ELSE IF appId = <<>> \/ privateKey = ""
    THEN [ok |-> FALSE, error |-> "GitHub App ID and private key are required",
          payload |-> NoPayload, signCalled |-> TRUE]
    ELSE [ok |-> TRUE, error |-> "", payload |-> payload, signCalled |-> TRUE]

generateJWTNoBackdate(appId, privateKey, now) ==
    IF appId = <<>> \/ privateKey = ""
    THEN [ok |-> FALSE, error |-> "GitHub App ID and private key are required",
          payload |-> NoPayload, signCalled |-> FALSE]
    ELSE LET payload == [iat |-> now, exp |-> now + (10 * 60),
                         iss |-> parseInt(appId)] IN
         IF privateKey = "garbage"
         THEN [ok |-> FALSE, error |-> "Failed to generate JWT", payload |-> payload,
               signCalled |-> TRUE]
         ELSE [ok |-> TRUE, error |-> "", payload |-> payload, signCalled |-> TRUE]

\* signCalled: jwt.sign was called (auth.js:24); payload is NoPayload when
\* the call failed before building it (auth.js:11-13).
generateJWT(appId, privateKey, now) ==
    IF appId = <<>> \/ privateKey = ""
    THEN [ok |-> FALSE, error |-> "GitHub App ID and private key are required",
          payload |-> NoPayload, signCalled |-> FALSE]
    ELSE LET payload == [iat |-> now - 60, exp |-> now + (10 * 60),
                         iss |-> parseInt(appId)] IN
         IF privateKey = "garbage"
         THEN [ok |-> FALSE, error |-> "Failed to generate JWT", payload |-> payload,
               signCalled |-> TRUE]
         ELSE [ok |-> TRUE, error |-> "", payload |-> payload, signCalled |-> TRUE]

\* authenticateApp (auth.js:36-47): an Octokit carrying the assertion, or
\* the error of generateJWT wrapped.
authenticateApp(e, now) == generateJWT(e.appId, e.privateKey, now)

(***************************************************************************)
(* Request bodies.  A raw body is invalid JSON, the JSON text null, or a   *)
(* JSON object of one of the shapes the platform sends:                    *)
(*   "issue"        issue{number,title} and repository{owner,name}         *)
(*   "issueNoRepo"  issue{number,title}, no repository                     *)
(*   "pr"           pull_request{number,title,merged} and repository       *)
(*   "push"         ref, commits and repository                            *)
(*   "install"      installation{id,account}                               *)
(*   "bare"         none of these keys (the {test:'data'} of the tests)    *)
(* inst is installation.id, 0 when the body carries none (the code tests   *)
(* it for truthiness).  action "none" is a body without an action key.     *)
(***************************************************************************)
Shapes == {"issue", "issueNoRepo", "pr", "push", "install", "bare"}

Actions ==
    {"opened", "closed", "labeled", "unlabeled", "review_requested",
     "created", "deleted", "edited", "none"}

Bodies ==
    { b \in [json : {"invalid", "null", "object"}, shape : Shapes, action : Actions,
             inst : 0..2, number : {0, 7, 8}, merged : BOOLEAN] :
        /\ b.json # "object" =>
              b.shape = "bare" /\ b.action = "none" /\ b.inst = 0
        /\ (b.number # 0) = (b.shape \in {"issue", "issueNoRepo", "pr"})
        /\ b.shape = "issueNoRepo" => b.number = 7
        /\ b.merged => b.shape = "pr"
        /\ b.shape = "install" => b.inst # 0 }

Events ==
    {"issues", "pull_request", "push", "installation",
     "installation_repositories", "ping"}

(***************************************************************************)
(* Signatures.  A header value is a string, modelled by its length and     *)
(* its text; an absent header is present = FALSE.  The HMAC is an          *)
(* injective function of the body and the secret.                          *)
(***************************************************************************)
Hmac(payload, secret) == <<"hmac", payload, secret>>

\* webhooks.js:17-18: 'sha256=' + hex digest.
Digest(payload, secret) ==
    [present |-> TRUE, len |-> DigestLen, text |-> Hmac(payload, secret)]

OtherBody(b) ==
    [b EXCEPT !.json = IF b.json = "invalid" THEN "null" ELSE "invalid"]

HeaderKinds ==
    {"valid", "otherBody", "otherSecret", "mutated", "short", "long", "empty", "absent"}

\* The header a sender produces; the platform signs with the secret "s1".
Header(kind, body) ==
    CASE kind = "valid" -> Digest(body, "s1")
      [] kind = "otherBody" -> Digest(OtherBody(body), "s1")
      [] kind = "otherSecret" -> Digest(body, "s2")
      [] kind = "mutated" ->
            [present |-> TRUE, len |-> DigestLen, text |-> <<"mutated", body, "s1">>]
      [] kind = "short" ->
            [present |-> TRUE, len |-> DigestLen - 1, text |-> <<"prefix", body, "s1">>]
      [] kind = "long" ->
            [present |-> TRUE, len |-> DigestLen + 1, text |-> <<"padded", body, "s1">>]
      [] kind = "empty" ->
            [present |-> TRUE, len |-> 0, text |-> <<"", body, "">>]
      [] OTHER ->
            [present |-> FALSE, len |-> 0, text |-> <<"", body, "">>]

\* Buffer.from(signature || '', 'utf8')
SignatureBuffer(signature) ==
    IF signature.present /\ signature.len > 0
    THEN [len |-> signature.len, text |-> signature.text]
    ELSE [len |-> 0, text |-> <<>>]

\* crypto.timingSafeEqual: throws a RangeError on buffers of different
\* byte length, otherwise compares the bytes.
timingSafeEqual(a, b) ==
    IF a.len # b.len THEN "RangeError"
    ELSE IF a.text = b.text THEN "true" ELSE "false"

verifySignatureNoBypass(payload, signature, secret) ==
    LET digest == Digest(payload, secret) IN
    timingSafeEqual(SignatureBuffer(signature),
                    [len |-> digest.len, text |-> digest.text])

\* verifySignature (webhooks.js:11-24): "true", "false", or the exception.
verifySignature(payload, signature, secret) ==
    IF secret = "" THEN "true"
    ELSE LET digest == Digest(payload, secret) IN
         timingSafeEqual(SignatureBuffer(signature),
                         [len |-> digest.len, text |-> digest.text])

(***************************************************************************)
(* One webhookHandler(req, res) call (webhooks.js:220-274).                *)
(*   pc         "idle" | "received" | "exchange" (awaiting the token       *)
(*              exchange) | "dispatch" | "calling" (awaiting a handler's   *)
(*              outbound call) | "waiting" (in withRateLimit's timer) |    *)
(*              "done" (response sent)                                     *)
(*   req        the request: signature header, event header, raw body      *)
(*   verified   what verifySignature did: "none" until it ran              *)
(*   parsed     JSON.parse and the read of data.installation?.id succeeded *)
(*   minted     calls of generateJWT made for this delivery                *)
(*   exchanges  token-exchange requests sent for this delivery             *)
(*   exchange   "none" | "pending" | "ok" | "failed"                       *)
(*   authError  the error the platform answered the exchange with          *)
(*   octokit    the installation the handler's client is authenticated     *)
(*              for, 0 for octokit = null                                  *)
(*   invoked    the handler functions entered, in order                    *)
(*   outbound   the platform calls sent by handlers, in order              *)
(*   frame      the handler's withRateLimit call                           *)
(*   caught     the handler's own catch block ran                          *)
(*   response   the status code sent, 0 before; responses counts sends     *)
(***************************************************************************)
Slots == {"d1", "d2"}

NoBody ==
    [json |-> "invalid", shape |-> "bare", action |-> "none", inst |-> 0,
     number |-> 0, merged |-> FALSE]

NoRequest == [header |-> Header("absent", NoBody), event |-> "ping", body |-> NoBody]

IdleDelivery ==
    [pc |-> "idle", req |-> NoRequest, verified |-> "none", parsed |-> FALSE,
     minted |-> 0, exchanges |-> 0, exchange |-> "none", authError |-> NoError,
     octokit |-> 0,
     invoked |-> <<>>, outbound |-> <<>>, frame |-> IdleFrame, caught |-> FALSE,
     response |-> 0, responses |-> 0]

\* res.status(code).send(...)
Respond(d, code) ==
    [d EXCEPT !.pc = "done", !.response = code, !.responses = d.responses + 1]

\* JSON.parse(payload.toString()) followed by data.installation?.id
\* (webhooks.js:233-238): both throw for a body that is no JSON object.
Parses(body) == body.json = "object"

BeginExchangeCached(d, e, now) ==
    LET app == authenticateApp(e, now)
        m == [d EXCEPT !.minted = d.minted + 1] IN
    IF d.req.body.inst = 1
    THEN [d EXCEPT !.pc = "dispatch", !.exchange = "ok", !.octokit = 1]
    ELSE IF ~app.ok THEN Respond([m EXCEPT !.exchange = "failed"], 500)
    ELSE [m EXCEPT !.pc = "exchange", !.exchange = "pending",
                   !.exchanges = d.exchanges + 1]

\* webhooks.js:241-248, the synchronous part of authenticateInstallation
\* (auth.js:72-75): authenticateApp mints the assertion; a failure rejects
\* and is answered 500, otherwise the exchange request is sent.
BeginExchange(d, e, now) ==
    LET app == authenticateApp(e, now)
        m == [d EXCEPT !.minted = d.minted + 1] IN
    IF ~app.ok THEN Respond([m EXCEPT !.exchange = "failed"], 500)
    ELSE [m EXCEPT !.pc = "exchange", !.exchange = "pending",
                   !.exchanges = d.exchanges + 1]

\* webhooks.js:227-230: the test of verifySignature's result.
SignatureGateOpen(v) == IF v = "RangeError" THEN "error" ELSE "pass"

SignatureGate(v) ==
    IF v = "RangeError" THEN "error"
    ELSE IF v = "false" THEN "reject"
    ELSE "pass"

HandlerEntryExchangeFirst(d, e, now) ==
    LET v == verifySignature(d.req.body, d.req.header, e.secret)
        g == SignatureGate(v) IN
    IF ~Parses(d.req.body) THEN Respond(d, 500)
    ELSE LET d2 == [d EXCEPT !.parsed = TRUE] IN
         IF d.req.body.inst # 0 THEN BeginExchange(d2, e, now)
         ELSE IF g = "error" THEN Respond([d2 EXCEPT !.verified = v], 500)
         ELSE IF g = "reject" THEN Respond([d2 EXCEPT !.verified = v], 401)
         ELSE [d2 EXCEPT !.verified = v, !.pc = "dispatch"]

\* webhooks.js:221-248: from entry to the first await or response.
HandlerEntry(d, e, now) ==
    LET v == verifySignature(d.req.body, d.req.header, e.secret)
        g == SignatureGate(v)
        d1 == [d EXCEPT !.verified = v] IN
    IF g = "error" THEN Respond(d1, 500)
    ELSE IF g = "reject" THEN Respond(d1, 401)
    ELSE IF ~Parses(d.req.body) THEN Respond(d1, 500)
    ELSE LET d2 == [d1 EXCEPT !.parsed = TRUE] IN
         IF d.req.body.inst # 0 THEN BeginExchange(d2, e, now)
         ELSE [d2 EXCEPT !.pc = "dispatch"]

ExchangeFailureIgnored(d, o) ==
    IF o.ok THEN [d EXCEPT !.pc = "dispatch", !.exchange = "ok",
                           !.octokit = d.req.body.inst]
    ELSE [d EXCEPT !.pc = "dispatch", !.exchange = "failed", !.authError = o.err]

\* auth.js:55-65, 75-83 and webhooks.js:243-247: the platform answers the
\* exchange; a rejection is wrapped twice and answered 500.
ExchangeSettle(d, o) ==
    IF o.ok THEN [d EXCEPT !.pc = "dispatch", !.exchange = "ok",
                           !.octokit = d.req.body.inst]
    ELSE Respond([d EXCEPT !.exchange = "failed", !.authError = o.err], 500)

(***************************************************************************)
(* The event handlers (webhooks.js:31-215).  A handler's synchronous part  *)
(* is a plan: the handler functions it enters, whether a TypeError         *)
(* escapes it (a read of a property of a missing object outside any        *)
(* try block), and the outbound call it makes through withRateLimit.       *)
(***************************************************************************)
Plan(invoked, throws, call) == [invoked |-> invoked, throws |-> throws, call |-> call]

handleIssuesDefaultOpened(body) ==
    IF body.shape \notin {"issue", "issueNoRepo"}
    THEN Plan(<<"handleIssues">>, TRUE, "none")
    ELSE CASE body.action = "closed" ->
                Plan(<<"handleIssues", "handleIssueClosed">>, FALSE, "none")
           [] body.action \in {"labeled", "unlabeled"} ->
                Plan(<<"handleIssues", "handleIssueLabeled">>, FALSE, "none")
           [] OTHER ->
                Plan(<<"handleIssues", "handleIssueOpened">>, FALSE, "createComment")

\* handleIssues (webhooks.js:31-50); line 34 reads issue.title.
handleIssues(body) ==
    IF body.shape \notin {"issue", "issueNoRepo"}
    THEN Plan(<<"handleIssues">>, TRUE, "none")
    ELSE CASE body.action = "opened" ->
                Plan(<<"handleIssues", "handleIssueOpened">>, FALSE, "createComment")
           [] body.action = "closed" ->
                Plan(<<"handleIssues", "handleIssueClosed">>, FALSE, "none")
           [] body.action \in {"labeled", "unlabeled"} ->
                Plan(<<"handleIssues", "handleIssueLabeled">>, FALSE, "none")
           [] OTHER -> Plan(<<"handleIssues">>, FALSE, "none")

\* handlePullRequest (webhooks.js:99-119); line 102 reads pull_request.title.
handlePullRequest(body) ==
    IF body.shape # "pr"
    THEN Plan(<<"handlePullRequest">>, TRUE, "none")
    ELSE CASE body.action = "opened" ->
                Plan(<<"handlePullRequest", "handlePROpened">>, FALSE, "addLabels")
           [] body.action = "closed" /\ body.merged ->
                Plan(<<"handlePullRequest", "handlePRMerged">>, FALSE, "none")
           [] body.action = "review_requested" ->
                Plan(<<"handlePullRequest", "handlePRReviewRequested">>, FALSE, "none")
           [] OTHER -> Plan(<<"handlePullRequest">>, FALSE, "none")

\* handlePush (webhooks.js:179-191); line 182 reads commits.length.
handlePush(body) == Plan(<<"handlePush">>, body.shape # "push", "none")

\* handleInstallation (webhooks.js:197-215); lines 204 and 210 read
\* installation.account.login.
handleInstallation(body) ==
    Plan(<<"handleInstallation">>,
         body.action \in {"created", "deleted"} /\ body.shape # "install", "none")

RouteAll(event, body) ==
    CASE event = "issues" -> handleIssues(body)
      [] event = "pull_request" -> handlePullRequest(body)
      [] event = "push" -> handlePush(body)
      [] event \in {"installation", "installation_repositories"} ->
            handleInstallation(body)
      [] OTHER -> handlePush(body)

\* The switch of webhookHandler (webhooks.js:251-267).
Route(event, body) ==
    CASE event = "issues" -> handleIssues(body)
      [] event = "pull_request" -> handlePullRequest(body)
      [] event = "push" -> handlePush(body)
      [] event \in {"installation", "installation_repositories"} ->
            handleInstallation(body)
      [] OTHER -> Plan(<<>>, FALSE, "none")

OutboundCallFirstIssue(api, body) == [api |-> api, number |-> 7]

\* The arguments of octokit.issues.createComment (webhooks.js:61-67) and of
\* octokit.issues.addLabels (webhooks.js:141-146): issue_number.
OutboundCall(api, body) == [api |-> api, number |-> body.number]

CanSendWithoutClient(d, api) ==
    ~(api = "createComment" /\ d.req.body.shape = "issueNoRepo")

\* Evaluating the call inside the arrow function raises a TypeError when
\* octokit is null or when repository.owner cannot be read.
CanSend(d, api) ==
    d.octokit # 0 /\ ~(api = "createComment" /\ d.req.body.shape = "issueNoRepo")

HandlerFinishUncaught(d) ==
    IF d.frame.state = "thrown" THEN Respond(d, 500) ELSE Respond(d, 200)

\* The end of handleIssueOpened (webhooks.js:70-73) and handlePROpened
\* (webhooks.js:149-153): the result, or the error caught by the handler's
\* own catch block, is logged; webhookHandler then sends 200 (line 269).
HandlerFinish(d) ==
    IF d.frame.state = "thrown" THEN Respond([d EXCEPT !.caught = TRUE], 200)
    ELSE Respond(d, 200)

HandlerSettleNoCatch(d, o) ==
    LET f == FrameSettle(d.frame, o)
        d1 == [d EXCEPT !.frame = f] IN
    IF f.state = "waiting" THEN [d1 EXCEPT !.pc = "waiting"]
    ELSE IF f.state = "thrown" THEN Respond(d1, 500)
    ELSE Respond(d1, 200)

\* The handler's await of withRateLimit: operation() has settled to o.
HandlerSettle(d, o) ==
    LET f == FrameSettle(d.frame, o)
        d1 == [d EXCEPT !.frame = f] IN
    IF f.state = "waiting" THEN [d1 EXCEPT !.pc = "waiting"]
    ELSE HandlerFinish(d1)

\* webhooks.js:251-269 up to the first await of an outbound call.
DispatchEntry(d) ==
    LET body == d.req.body
        plan == Route(d.req.event, body)
        d1 == [d EXCEPT !.invoked = plan.invoked] IN
    IF plan.throws THEN Respond(d1, 500)
    ELSE IF plan.call = "none" THEN Respond(d1, 200)
    ELSE LET d2 == [d1 EXCEPT !.frame = FrameStart(DefaultRetries)] IN
         IF CanSend(d, plan.call)
         THEN [d2 EXCEPT !.pc = "calling",
                         !.outbound = <<OutboundCall(plan.call, body)>>]
         ELSE HandlerSettle(d2, Fail(TypeError))

(***************************************************************************)
(* Actions of the webhook endpoint.                                        *)
(***************************************************************************)
\* Correctly signed requests carry every body under every event header;
\* the other signature headers come with a sample of them.
SampleBodies ==
    { b \in Bodies :
        \/ b.json # "object"
        \/ b.shape = "bare" /\ b.action = "none" /\ b.inst = 0
        \/ b.shape = "issue" /\ b.action = "opened" /\ b.inst = 1 /\ b.number = 8
        \/ b.shape = "push" /\ b.action = "none" /\ b.inst = 2 }

Requests ==
    { [header |-> Header(k, b), event |-> ev, body |-> b] :
        k \in {"valid"}, ev \in Events, b \in Bodies }
    \cup
    { [header |-> Header(k, b), event |-> ev, body |-> b] :
        k \in HeaderKinds \ {"valid"}, ev \in {"issues", "push", "ping"},
        b \in SampleBodies }

\* What the platform answers to a token exchange and to a handler's call.
ExchangeOutcomes == { Ok("token"), Fail(RateLimitA), Fail(MkError("server", 500, TRUE, "absent", -1)) }

HandlerOutcomes ==
    { Ok("resultA"), Fail(RateLimitA), Fail(RateLimitB),
      Fail(MkError("forbiddenBare", 403, FALSE, "absent", -1)),
      Fail(MkError("server", 500, TRUE, "absent", -1)) }

\* express hands a POST /webhooks request to webhookHandler (app.js:20,34).
Receive(s) ==
    /\ dl[s].pc = "idle"
    /\ \E req \in Requests : dl' = [dl EXCEPT ![s] = [IdleDelivery EXCEPT !.pc = "received", !.req = req]]
    /\ UNCHANGED <<env, rl, timer, jwt>>

HandlerStartBlocked(s) ==
    /\ dl[s].pc = "received"
    /\ \A t \in Slots : dl[t].pc # "waiting"
    /\ \E now \in Times : dl' = [dl EXCEPT ![s] = HandlerEntry(dl[s], env, now)]
    /\ UNCHANGED <<env, rl, timer, jwt>>

\* webhookHandler runs to its first await or to its response.
HandlerStart(s) ==
    /\ dl[s].pc = "received"
    /\ \E now \in Times : dl' = [dl EXCEPT ![s] = HandlerEntry(dl[s], env, now)]
    /\ UNCHANGED <<env, rl, timer, jwt>>

\* The platform answers octokit.apps.createInstallationAccessToken.
ExchangeReply(s) ==
    /\ dl[s].pc = "exchange"
    /\ \E o \in ExchangeOutcomes : dl' = [dl EXCEPT ![s] = ExchangeSettle(dl[s], o)]
    /\ UNCHANGED <<env, rl, timer, jwt>>

\* webhookHandler resumes after the exchange (or goes on without one) and
\* runs the switch and the selected handler.
Dispatch(s) ==
    /\ dl[s].pc = "dispatch"
    /\ dl' = [dl EXCEPT ![s] = DispatchEntry(dl[s])]
    /\ UNCHANGED <<env, rl, timer, jwt>>

\* The platform answers the handler's outbound call.
CallReply(s) ==
    /\ dl[s].pc = "calling"
    /\ \E o \in HandlerOutcomes : dl' = [dl EXCEPT ![s] = HandlerSettle(dl[s], o)]
    /\ UNCHANGED <<env, rl, timer, jwt>>

TimerFireLost(s) ==
    /\ dl[s].pc = "waiting"
    /\ UNCHANGED vars

\* withRateLimit's timer fires: the operation is invoked again.
TimerFire(s) ==
    /\ dl[s].pc = "waiting"
    /\ dl' = [dl EXCEPT ![s] =
                [dl[s] EXCEPT !.pc = "calling", !.frame = FrameWake(dl[s].frame),
                              !.outbound = Append(dl[s].outbound, dl[s].outbound[1])]]
    /\ UNCHANGED <<env, rl, timer, jwt>>

Init ==
    /\ env \in Envs
    /\ dl = [s \in Slots |-> IdleDelivery]
    /\ rl = IdleFrame
    /\ timer = NoTimer
    /\ jwt = <<>>

Next ==
    \/ Receive("d1")
    \/ HandlerStart("d1")
    \/ ExchangeReply("d1")
    \/ Dispatch("d1")
    \/ CallReply("d1")
    \/ TimerFire("d1")

Spec == Init /\ [][Next]_vars

(***************************************************************************)
(* The stand-alone caller of withRateLimit (tests/auth.test.js:23-57,      *)
(* and the routes of the API router): any retry budget, any operation.     *)
(***************************************************************************)
RLCall ==
    /\ rl.state = "idle"
    /\ \E retries \in 0..MaxRetries : rl' = FrameStart(retries)
    /\ UNCHANGED <<env, dl, timer, jwt>>

RLSettle ==
    /\ rl.state = "calling"
    /\ \E o \in Outcomes, now \in ClockTimes :
          /\ rl' = FrameSettle(rl, o)
          /\ timer' = IF FrameSettle(rl, o).state = "waiting"
                       THEN Backoff(o.err, now) ELSE timer
    /\ UNCHANGED <<env, dl, jwt>>

RLTimerFire ==
    /\ rl.state = "waiting"
    /\ rl' = FrameWake(rl)
    /\ timer' = [timer EXCEPT !.armed = FALSE]
    /\ UNCHANGED <<env, dl, jwt>>

InitRL ==
    /\ env = [secret |-> "s1", appId |-> <<"4", "2">>, privateKey |-> "pem"]
    /\ dl = [s \in Slots |-> IdleDelivery]
    /\ rl = IdleFrame
    /\ timer = NoTimer
    /\ jwt = <<>>

NextRL ==
    \/ RLCall
    \/ RLSettle
    \/ RLTimerFire

SpecRL == InitRL /\ [][NextRL]_vars

(***************************************************************************)
(* The stand-alone caller of generateJWT (tests/auth.test.js:9-21): any    *)
(* App id, any key, any time.                                              *)
(***************************************************************************)
\* How many generateJWT calls the stand-alone caller makes.
MaxMints == 2

JwtAppIds == AppIds \cup { <<"7">>, <<"1", "2", "3", "4", "5">>, <<"7", "x">> }

MintCall ==
    /\ Len(jwt) < MaxMints
    /\ \E appId \in JwtAppIds, privateKey \in {"", "pem", "garbage"}, now \in Times :
          jwt' = Append(jwt, [appId |-> appId, privateKey |-> privateKey, now |-> now,
                              result |-> generateJWT(appId, privateKey, now)])
    /\ UNCHANGED <<env, dl, rl, timer>>

NextJWT == MintCall

SpecJWT == InitRL /\ [][NextJWT]_vars

(***************************************************************************)
(* Concurrent deliveries: every slot runs its own webhookHandler call and  *)
(* the event loop interleaves them at their awaits.  The requests are a    *)
(* sample: two issue-opened deliveries for different installations (two    *)
(* slots may take the same one), an unknown event without installation,    *)
(* an unsigned request and one signed with another secret.                 *)
(***************************************************************************)
ConcRequests ==
    { r \in Requests :
        \/ /\ r.header = Digest(r.body, "s1")
           /\ r.event = "issues"
           /\ r.body.shape = "issue"
           /\ r.body.action = "opened"
           /\ <<r.body.inst, r.body.number>> \in {<<1, 7>>, <<2, 8>>}
        \/ /\ r.header = Digest(r.body, "s1")
           /\ r.event = "ping"
           /\ r.body.shape = "bare" /\ r.body.json = "object"
           /\ r.body.action = "none" /\ r.body.inst = 0
        \/ /\ ~r.header.present \/ r.header = Digest(r.body, "s2")
           /\ r.event = "issues"
           /\ r.body.shape = "issue" }

ReceiveConc(s) ==
    /\ dl[s].pc = "idle"
    /\ \E req \in ConcRequests :
          dl' = [dl EXCEPT ![s] = [IdleDelivery EXCEPT !.pc = "received", !.req = req]]
    /\ UNCHANGED <<env, rl, timer, jwt>>

NextConc ==
    \E s \in Slots :
        \/ ReceiveConc(s)
        \/ HandlerStart(s)
        \/ ExchangeReply(s)
        \/ Dispatch(s)
        \/ CallReply(s)
        \/ TimerFire(s)

SpecConc == InitRL /\ [][NextConc]_vars

\* Every awaited promise settles: the platform answers each call (or the
\* call fails) and each timer fires; a request may never arrive.
Progress ==
    \A s \in Slots :
        /\ WF_vars(HandlerStart(s))
        /\ WF_vars(ExchangeReply(s))
        /\ WF_vars(Dispatch(s))
        /\ WF_vars(CallReply(s))
        /\ WF_vars(TimerFire(s))

SpecLive == InitRL /\ [][NextConc]_vars /\ Progress

TypeOK ==
    /\ env \in Envs
    /\ \A s \in Slots : dl[s].pc \in
          {"idle", "received", "exchange", "dispatch", "calling", "waiting", "done"}
    /\ rl.state \in {"idle", "calling", "waiting", "returned", "thrown"}

(***************************************************************************)
(* Vocabulary of the properties.                                           *)
(***************************************************************************)
\* A secret is configured and the signature header is not 'sha256=' plus
\* the HMAC of the body under it.
SignatureFails(d) ==
    env.secret # "" /\ d.req.header # Digest(d.req.body, env.secret)

\* The rate-limit signal: status 403, remaining 0 and a reset timestamp.
IsSignal(e) == e.status = 403 /\ e.hasHeaders /\ e.remaining = "0" /\ e.reset # -1

\* An error that lacks status 403 or lacks a remaining-calls indicator of 0.
NotRateLimit(e) == e.status # 403 \/ ~(e.hasHeaders /\ e.remaining = "0")

\* The first k invocations failed with a rate-limit signal.
SignalsOnly(log, k) == \A i \in 1..k : ~log[i].ok /\ IsSignal(log[i].err)

KnownEvents ==
    {"issues", "pull_request", "push", "installation", "installation_repositories"}

\* The payload lacks the object the handler selected by the event reads
\* outside any try block.
MissingObject(event, body) ==
    \/ event = "issues" /\ body.shape \notin {"issue", "issueNoRepo"}
    \/ event = "pull_request" /\ body.shape # "pr"
    \/ event = "push" /\ body.shape # "push"
    \/ /\ event \in {"installation", "installation_repositories"}
       /\ body.action \in {"created", "deleted"}
       /\ body.shape # "install"

(***************************************************************************)
(* Properties of the webhook endpoint (specification Spec).                *)
(***************************************************************************)
\* C1: every delivery whose signature fails verification while a secret is
\* configured is answered 401, never 500.
C1_BadSignatureAnswered401 ==
    \A s \in Slots :
        (dl[s].pc = "done" /\ SignatureFails(dl[s])) => dl[s].response = 401

\* C2: for a delivery whose signature does not verify no handler is
\* invoked, no assertion is minted, no credential exchange is started and
\* no outbound platform call is made.
C2_BadSignatureNoHandler ==
    \A s \in Slots :
        (dl[s].pc # "idle" /\ SignatureFails(dl[s])) =>
            /\ dl[s].invoked = <<>>
            /\ dl[s].outbound = <<>>
            /\ dl[s].minted = 0
            /\ dl[s].exchanges = 0
            /\ dl[s].frame = IdleFrame
            /\ dl[s].pc \in {"received", "done"}

C2_Witness ==
    \E s \in Slots :
        /\ dl[s].pc = "done"
        /\ SignatureFails(dl[s])
        /\ dl[s].verified = "false"
        /\ dl[s].req.event = "issues"
        /\ dl[s].req.body.shape = "issue"

\* C6: a verified delivery that carries an installation id and whose
\* credential exchange fails is answered 500 and no handler is invoked.
C6_ExchangeFailureIs500 ==
    \A s \in Slots :
        (/\ dl[s].verified = "true"
         /\ dl[s].req.body.inst # 0
         /\ dl[s].exchange = "failed") =>
            /\ dl[s].pc = "done"
            /\ dl[s].response = 500
            /\ dl[s].invoked = <<>>
            /\ dl[s].outbound = <<>>

C6_Witness ==
    \E s \in Slots :
        /\ dl[s].verified = "true"
        /\ dl[s].req.body.inst # 0
        /\ dl[s].exchange = "failed"
        /\ dl[s].exchanges = 1
        /\ dl[s].req.event = "issues"
        /\ dl[s].req.body.action = "opened"

C9_HandlerFailureIs200 ==
    \A s \in Slots :
        dl[s].frame.state = "thrown" =>
            /\ dl[s].pc = "done"
            /\ dl[s].caught
            /\ dl[s].response = 200

C9_Witness ==
    \E s \in Slots :
        /\ dl[s].frame.state = "thrown"
        /\ dl[s].frame.calls = DefaultRetries + 1
        /\ IsSignal(dl[s].frame.error)
        /\ dl[s].req.event = "pull_request"
        /\ dl[s].response = 200

\* C10: an issues/opened delivery that is verified and whose credential
\* exchange succeeded is answered 200 after exactly one invocation of
\* handleIssueOpened and of no other sub-handler; every comment call it
\* sends is for the issue number of the payload, and at least one is sent
\* when the payload names the repository.
C10_IssueOpened ==
    \A s \in Slots :
        (/\ dl[s].pc = "done"
         /\ dl[s].req.event = "issues"
         /\ dl[s].req.body.action = "opened"
         /\ dl[s].req.body.shape \in {"issue", "issueNoRepo"}
         /\ dl[s].verified = "true"
         /\ dl[s].req.body.inst # 0
         /\ dl[s].exchange = "ok") =>
            /\ dl[s].response = 200
            /\ dl[s].invoked = <<"handleIssues", "handleIssueOpened">>
            /\ \A i \in 1..Len(dl[s].outbound) :
                  dl[s].outbound[i] =
                      [api |-> "createComment", number |-> dl[s].req.body.number]
            /\ dl[s].req.body.shape = "issue" =>
                  Len(dl[s].outbound) = dl[s].frame.calls /\ dl[s].frame.calls >= 1

C10_Witness ==
    \E s \in Slots :
        /\ dl[s].pc = "done"
        /\ dl[s].req.event = "issues"
        /\ dl[s].req.body.action = "opened"
        /\ dl[s].req.body.number = 8
        /\ dl[s].req.header = Digest(dl[s].req.body, "s1")
        /\ env.secret = "s1"
        /\ dl[s].exchange = "ok"
        /\ dl[s].frame.state = "returned"
        /\ Len(dl[s].outbound) = 2
        /\ dl[s].response = 200

(***************************************************************************)
(* Properties of withRateLimit (specification SpecRL).                     *)
(***************************************************************************)
\* C3: when the first k invocations fail with a rate-limit signal, k within
\* the retry budget, the call does not give up, and when invocation k+1
\* succeeds the call returns that result after exactly k+1 invocations and
\* k waits.
C3_RetryThenSuccess ==
    LET n == Len(rl.log) IN
    /\ (rl.state # "idle" /\ n <= rl.budget /\ SignalsOnly(rl.log, n)) =>
          /\ rl.state \in {"calling", "waiting"}
          /\ rl.waits = n
          /\ rl.calls = IF rl.state = "calling" THEN n + 1 ELSE n
    /\ (n >= 1 /\ n - 1 <= rl.budget /\ SignalsOnly(rl.log, n - 1) /\ rl.log[n].ok) =>
          /\ rl.state = "returned"
          /\ rl.result = rl.log[n].val
          /\ rl.calls = n
          /\ rl.waits = n - 1

C3_Witness ==
    /\ rl.state = "returned"
    /\ Len(rl.log) = 2
    /\ SignalsOnly(rl.log, 1)
    /\ rl.calls = 2
    /\ rl.waits = 1

\* C4: an operation that fails with a rate-limit signal on every attempt is
\* invoked exactly budget + 1 times, never more, and the call then throws
\* the error of the last attempt.
C4_BudgetExhausted ==
    LET n == Len(rl.log) IN
    /\ rl.calls <= rl.budget + 1
    /\ (rl.state = "thrown" /\ SignalsOnly(rl.log, n)) =>
          /\ n = rl.budget + 1
          /\ rl.calls = rl.budget + 1
          /\ rl.waits = rl.budget
          /\ rl.error = rl.log[n].err
    /\ (n = rl.budget + 1 /\ SignalsOnly(rl.log, n)) => rl.state = "thrown"

C4_Witness ==
    /\ rl.state = "thrown"
    /\ rl.budget = DefaultRetries
    /\ rl.calls = 4
    /\ SignalsOnly(rl.log, 4)
    /\ rl.log[1].err # rl.log[4].err

\* C5: a failure that is not a rate-limit signal is never retried: no
\* further invocation, no wait, and the same error value is thrown.
C5_OtherErrorsPropagateUnchanged ==
    LET n == Len(rl.log) IN
    (n >= 1 /\ ~rl.log[n].ok /\ NotRateLimit(rl.log[n].err)) =>
        /\ rl.state = "thrown"
        /\ rl.calls = n
        /\ rl.waits = n - 1
        /\ rl.error = rl.log[n].err

(***************************************************************************)
(* Properties of verifySignature, as webhookHandler applies it (Spec).     *)
(***************************************************************************)
\* C11: with a secret configured verifySignature returns true exactly for
\* the header 'sha256=' + HMAC(body, secret) and returns false, without
\* throwing, for every other header, a missing or empty one included.
C11_VerifyIsTrueOrFalse ==
    \A s \in Slots :
        (env.secret # "" /\ dl[s].verified # "none") =>
            dl[s].verified =
                IF dl[s].req.header = Digest(dl[s].req.body, env.secret)
                THEN "true" ELSE "false"

\* C12: without a secret verifySignature returns true for every body and
\* header, so the delivery is never answered 401, its body is parsed and,
\* unless parsing or the credential exchange fails, it is dispatched.
C12_NoSecretAlwaysVerified ==
    \A s \in Slots :
        (env.secret = "" /\ dl[s].pc \notin {"idle", "received"}) =>
            /\ dl[s].verified = "true"
            /\ dl[s].response # 401
            /\ dl[s].parsed = Parses(dl[s].req.body)
            /\ (dl[s].pc = "done" /\ dl[s].parsed /\ dl[s].exchange # "failed") =>
                  dl[s].invoked = Route(dl[s].req.event, dl[s].req.body).invoked

C12_Witness ==
    \E s \in Slots :
        /\ env.secret = ""
        /\ ~dl[s].req.header.present
        /\ dl[s].pc = "done"
        /\ dl[s].invoked = <<"handleIssues", "handleIssueOpened">>
        /\ dl[s].response = 200

(***************************************************************************)
(* Properties of generateJWT (specification SpecJWT).                      *)
(***************************************************************************)
IsNumeric(appId) == appId # <<>> /\ \A i \in 1..Len(appId) : appId[i] \in Digits

\* The number a string of decimal digits denotes.
RECURSIVE DecimalValue(_)
DecimalValue(str) ==
    IF str = <<>> THEN 0
    ELSE DigitValue(str[Len(str)]) + 10 * DecimalValue(SubSeq(str, 1, Len(str) - 1))

\* C13: for a numeric App id and a non-empty key the payload has
\* iat = now - 60, exp = now + 600 and iss = the App id as a number; every
\* assertion signed has exp - iat = 660, each call with its own now.
C13_AssertionWindow ==
    \A i \in 1..Len(jwt) :
        LET c == jwt[i] IN
        /\ (IsNumeric(c.appId) /\ c.privateKey # "") =>
              /\ c.result.payload.iat = c.now - 60
              /\ c.result.payload.exp = c.now + 600
              /\ ~c.result.payload.iss.nan
              /\ c.result.payload.iss.n = DecimalValue(c.appId)
              /\ c.result.ok = (c.privateKey = "pem")
        /\ c.result.ok => c.result.payload.exp - c.result.payload.iat = 660

C13_Witness ==
    /\ Len(jwt) = 2
    /\ jwt[1].result.ok /\ jwt[2].result.ok
    /\ jwt[1].appId = <<"1", "2", "3", "4", "5">>
    /\ jwt[1].appId = jwt[2].appId
    /\ jwt[1].now # jwt[2].now
    /\ jwt[1].result.payload.iat # jwt[2].result.payload.iat

\* C14: generateJWT with an empty App id or an empty key fails with the
\* configuration error, before the payload is built and before jwt.sign.
C14_ConfigurationErrorFirst ==
    \A i \in 1..Len(jwt) :
        LET c == jwt[i] IN
        (c.appId = <<>> \/ c.privateKey = "") =>
            /\ ~c.result.ok
            /\ c.result.error = "GitHub App ID and private key are required"
            /\ c.result.payload = NoPayload
            /\ ~c.result.signCalled

C14_Witness ==
    \E i \in 1..Len(jwt) :
        /\ jwt[i].appId = <<>>
        /\ jwt[i].privateKey = "garbage"
        /\ jwt[i].result.error = "GitHub App ID and private key are required"

(***************************************************************************)
(* Properties of the credential exchange (specification Spec).             *)
(***************************************************************************)
\* C15: the token exchange goes through withRateLimit: an exchange the
\* platform answers with a rate-limit signal is retried, so it has failed
\* with such an error only once the retry budget is used up.
C15_ExchangeRetriedOnRateLimit ==
    \A s \in Slots :
        (dl[s].exchange = "failed" /\ IsSignal(dl[s].authError)) =>
            dl[s].exchanges = DefaultRetries + 1

(***************************************************************************)
(* Properties of concurrent deliveries (specification SpecConc).           *)
(***************************************************************************)
\* The deliveries that passed verification and carry an installation id.
TenantDeliveries ==
    { s \in Slots : dl[s].verified = "true" /\ dl[s].parsed /\ dl[s].req.body.inst # 0 }

RECURSIVE TotalExchanges(_)
TotalExchanges(slots) ==
    IF slots = {} THEN 0
    ELSE LET s == CHOOSE t \in slots : TRUE IN
         dl[s].exchanges + TotalExchanges(slots \ {s})

\* C16: every verified delivery that carries an installation id sends its
\* own exchange request, one per delivery also for the same installation,
\* and the client its handler gets is the one exchanged for its own
\* installation.
C16_OwnExchangePerDelivery ==
    /\ TotalExchanges(Slots) = Cardinality(TenantDeliveries)
    /\ \A s \in TenantDeliveries :
          /\ dl[s].minted = 1
          /\ dl[s].exchanges = 1
          /\ (dl[s].pc \in {"dispatch", "calling", "waiting"} \/ dl[s].invoked # <<>>) =>
                dl[s].exchange = "ok" /\ dl[s].octokit = dl[s].req.body.inst
    /\ \A s \in Slots \ TenantDeliveries :
          dl[s].minted = 0 /\ dl[s].octokit = 0

C16_Witness ==
    /\ dl["d1"].req.body.inst = 1
    /\ dl["d2"].req.body.inst = 1
    /\ dl["d1"].pc = "waiting"
    /\ dl["d2"].pc = "calling"
    /\ dl["d1"].exchanges = 1
    /\ dl["d2"].exchanges = 1
    /\ dl["d1"].octokit = 1
    /\ dl["d2"].octokit = 1

\* The next step of the delivery in slot b can be taken.
CanStep(b) ==
    /\ dl[b].pc = "idle" => ENABLED ReceiveConc(b)
    /\ dl[b].pc = "received" => ENABLED HandlerStart(b)
    /\ dl[b].pc = "exchange" => ENABLED ExchangeReply(b)
    /\ dl[b].pc = "dispatch" => ENABLED Dispatch(b)
    /\ dl[b].pc = "calling" => ENABLED CallReply(b)
    /\ dl[b].pc = "waiting" => ENABLED TimerFire(b)

\* The state of the delivery in slot b follows from its own request and
\* from the platform's answers to its own calls.
OwnStateOnly(b) ==
    /\ dl[b].octokit \in {0, dl[b].req.body.inst}
    /\ \A i \in 1..Len(dl[b].outbound) :
          dl[b].outbound[i].number = dl[b].req.body.number
    /\ Len(dl[b].outbound) = IF dl[b].octokit = 0 THEN 0 ELSE dl[b].frame.calls
    /\ dl[b].pc = "done" =>
          dl[b].response =
              IF dl[b].verified # "true"
              THEN (IF dl[b].verified = "false" THEN 401 ELSE 500)
              ELSE IF \/ dl[b].exchange = "failed"
                      \/ ~Parses(dl[b].req.body)
                      \/ MissingObject(dl[b].req.event, dl[b].req.body)
                   THEN 500 ELSE 200

\* C17: while a delivery is suspended in the backoff wait every other
\* delivery can take its next step, whatever it is, up to its response, and
\* its state depends on nothing the waiting delivery wrote.
C17_WaitDoesNotBlock ==
    \A a, b \in Slots :
        (a # b /\ dl[a].pc = "waiting") => CanStep(b) /\ OwnStateOnly(b)

C17_Witness ==
    \E a, b \in Slots :
        /\ a # b
        /\ dl[a].pc = "waiting"
        /\ dl[a].frame.waits = 1
        /\ dl[b].pc = "done"
        /\ dl[b].response = 200
        /\ dl[b].frame.state = "returned"
        /\ dl[b].req.body.inst # dl[a].req.body.inst

(***************************************************************************)
(* Response and backoff timing.                                            *)
(***************************************************************************)
\* C18: the response of a delivery does not wait for a backoff wait taken
\* inside its handler: whenever the handler of a delivery is suspended in
\* the rate-limit wait, the response of that delivery has been sent.
C18_ResponseNotHeldByBackoff ==
    \A s \in Slots : dl[s].pc = "waiting" => dl[s].response # 0

\* The wait in whole seconds that the armed timer was computed from.
ComputedWait == timer.reset - timer.now + 1

C20_OneResponseEventually ==
    /\ [](\A s \in Slots :
            /\ dl[s].responses <= 1
            /\ dl[s].pc # "done" => dl[s].responses = 0 /\ dl[s].response = 0
            /\ dl[s].pc = "done" =>
                  dl[s].responses = 1 /\ dl[s].response \in {200, 401, 500})
    /\ \A s \in Slots : (dl[s].pc = "received") ~> (dl[s].pc = "done")

C20_Witness ==
    /\ dl["d1"].pc = "done"
    /\ dl["d1"].responses = 1
    /\ dl["d1"].response = 200
    /\ dl["d1"].frame.waits = 3
    /\ dl["d2"].pc = "done"
    /\ dl["d2"].responses = 1
    /\ dl["d2"].response = 401

(***************************************************************************)
(* Order of the steps of one delivery.                                     *)
(***************************************************************************)
\* C21: the body is parsed only after verifySignature returned true, an
\* assertion is minted and an exchange started only after the body was
\* parsed, a handler is entered only after verification passed, the body
\* was parsed and, when the payload carries an installation id, the
\* exchange for that installation succeeded; the response comes last.
C21_StepsInOrder ==
    \A s \in Slots :
        /\ dl[s].parsed => dl[s].verified = "true"
        /\ (dl[s].minted > 0 \/ dl[s].exchange # "none") =>
              dl[s].parsed /\ dl[s].req.body.inst # 0
        /\ (dl[s].pc \in {"dispatch", "calling", "waiting"} \/ dl[s].invoked # <<>>) =>
              /\ dl[s].verified = "true"
              /\ dl[s].parsed
              /\ IF dl[s].req.body.inst # 0
                 THEN dl[s].exchange = "ok" /\ dl[s].octokit = dl[s].req.body.inst
                 ELSE dl[s].exchange = "none" /\ dl[s].octokit = 0
        /\ dl[s].pc \in {"idle", "received", "exchange", "dispatch"} =>
              dl[s].invoked = <<>> /\ dl[s].outbound = <<>>
        /\ dl[s].pc # "done" => dl[s].response = 0

C21_Witness ==
    /\ dl["d1"].pc = "calling"
    /\ dl["d1"].verified = "true"
    /\ dl["d1"].req.body.inst = 2
    /\ dl["d1"].exchange = "ok"
    /\ dl["d1"].invoked = <<"handlePullRequest", "handlePROpened">>
    /\ dl["d1"].response = 0

(***************************************************************************)
(* Non-numeric App id (specification SpecJWT).                             *)
(***************************************************************************)
\* C22: generateJWT with a non-empty App id that is not a string of digits
\* fails with the configuration error without calling jwt.sign, and every
\* assertion signed has the App id, as a number, for its issuer.
C22_NonNumericAppIdRejected ==
    \A i \in 1..Len(jwt) :
        LET c == jwt[i] IN
        /\ (c.appId # <<>> /\ ~IsNumeric(c.appId)) =>
              /\ ~c.result.ok
              /\ ~c.result.signCalled
              /\ c.result.error = "GitHub App ID and private key are required"
        /\ c.result.ok =>
              /\ IsNumeric(c.appId)
              /\ ~c.result.payload.iss.nan
              /\ c.result.payload.iss.n = DecimalValue(c.appId)

(***************************************************************************)
(* Actions without a branch (specification Spec).                          *)
(***************************************************************************)
\* The action falls to the default branch of the handler's switch.
UnrecognizedAction(event, body) ==
    \/ event = "issues" /\ body.action \notin {"opened", "closed", "labeled", "unlabeled"}
    \/ event = "pull_request" /\ body.action \notin {"opened", "closed", "review_requested"}

C24_RetryNeedsResetTimestamp ==
    /\ \A i \in 1..Len(rl.log) :
          (i < rl.calls \/ rl.state = "waiting") =>
              ~rl.log[i].ok /\ IsSignal(rl.log[i].err)
    /\ (/\ rl.log # <<>>
        /\ ~rl.log[1].ok
        /\ rl.log[1].err.status = 403
        /\ rl.log[1].err.hasHeaders
        /\ rl.log[1].err.remaining = "0"
        /\ rl.log[1].err.reset = -1) =>
          /\ rl.state = "thrown"
          /\ rl.calls = 1
          /\ rl.waits = 0
          /\ rl.error = rl.log[1].err

(***************************************************************************)
(* Deliveries without an installation id (specification Spec).             *)
(***************************************************************************)
\* C25: a verified delivery whose payload carries no installation id mints
\* no assertion and starts no exchange; it is dispatched by its event type
\* with octokit = null, and when its handler's outbound call fails on the
\* null client, nothing is sent, the handler catches the TypeError after
\* one invocation and the response is 200.
C25_NoTenantNoExchange ==
    \A s \in Slots :
        LET d == dl[s] IN
        (d.verified = "true" /\ d.parsed /\ d.req.body.inst = 0) =>
            /\ d.minted = 0
            /\ d.exchanges = 0
            /\ d.exchange = "none"
            /\ d.octokit = 0
            /\ d.pc \in {"dispatch", "done"}
            /\ d.outbound = <<>>
            /\ d.pc = "done" =>
                  /\ d.invoked = Route(d.req.event, d.req.body).invoked
                  /\ d.response =
                        IF MissingObject(d.req.event, d.req.body) THEN 500 ELSE 200
                  /\ Route(d.req.event, d.req.body).call # "none" =>
                        /\ d.frame.state = "thrown"
                        /\ d.frame.calls = 1
                        /\ d.frame.waits = 0
                        /\ d.frame.error = TypeError
                        /\ d.caught
                        /\ d.response = 200

C25_Witness ==
    /\ dl["d1"].pc = "done"
    /\ dl["d1"].verified = "true"
    /\ env.secret = "s1"
    /\ dl["d1"].req.body.inst = 0
    /\ dl["d1"].req.event = "issues"
    /\ dl["d1"].invoked = <<"handleIssues", "handleIssueOpened">>
    /\ dl["d1"].frame.error = TypeError
    /\ dl["d1"].caught
    /\ dl["d1"].response = 200

====
